---- MODULE Spec2Model ----
(***************************************************************************)
(* Model of NumberFormatter.py: the locale registry, the digit-grouping     *)
(* function, the plain / currency / scientific renderers, the style         *)
(* dispatcher format_number and the /format and /locales endpoints.         *)
(*                                                                          *)
(* Strings are sequences of one-character strings, so that slicing,         *)
(* splitting, reversing and joining are computed as the code computes them. *)
(* A float is a sign, a kind (finite, inf, nan) and, when finite, a         *)
(* magnitude counted in units of 1/Scale (a binary fixed-point number, so   *)
(* every modelled value is exactly representable in binary, as a double     *)
(* is).  The built-in conversions float(), int(), str.lower() and           *)
(* str.format are modelled by what CPython does.                            *)
(***************************************************************************)
EXTENDS Integers, Sequences, FiniteSets, TLC

VARIABLES call, ret

vars == <<call, ret>>

(***************************************************************************)
(* Bounds of the model.                                                     *)
(***************************************************************************)
\* number of binary fractional bits a modelled float keeps
FracBits == 3
\* largest explicit decimals count drawn as an input
MaxDecimals == 3
\* longest digit string handed to group_thousands on its own
MaxDigits == 7

(***************************************************************************)
(* Python values.                                                           *)
(***************************************************************************)
PyNone == [t |-> "None", i |-> 0, s |-> <<>>]
PyInt(n) == [t |-> "int", i |-> n, s |-> <<>>]
PyStr(x) == [t |-> "str", i |-> 0, s |-> x]

\* a float: kind is "fin", "inf" or "nan"; mag counts units of 1/Scale
PyFloat(kind, neg, mag) == [t |-> "float", kind |-> kind, neg |-> neg, mag |-> mag]

\* the outcome of a call: a returned value, or a raised exception
Return(v) == [exc |-> "none", val |-> v, msg |-> <<>>]
Raise(e, m) == [exc |-> e, val |-> <<>>, msg |-> m]

RECURSIVE Pow(_, _)
Pow(b, n) == IF n = 0 THEN 1 ELSE b * Pow(b, n - 1)

Scale == Pow(2, FracBits)

(***************************************************************************)
(* String primitives (str slicing, reversal, join, find, lower).            *)
(***************************************************************************)
DigitChars == <<"0", "1", "2", "3", "4", "5", "6", "7", "8", "9">>

IsDigit(c) == \E k \in 1..10 : DigitChars[k] = c

DigitVal(c) == (CHOOSE k \in 1..10 : DigitChars[k] = c) - 1

UpperChars == <<"A", "B", "C", "D", "E", "F", "G", "H", "I", "J", "K", "L", "M",
                "N", "O", "P", "Q", "R", "S", "T", "U", "V", "W", "X", "Y", "Z">>

LowerChars == <<"a", "b", "c", "d", "e", "f", "g", "h", "i", "j", "k", "l", "m",
                "n", "o", "p", "q", "r", "s", "t", "u", "v", "w", "x", "y", "z">>

LowerChar(c) ==
    IF \E k \in 1..26 : UpperChars[k] = c
    THEN LowerChars[CHOOSE k \in 1..26 : UpperChars[k] = c]
    ELSE c

\* str.lower()
Lower(s) == [k \in 1..Len(s) |-> LowerChar(s[k])]

\* s[::-1]
Reverse(s) == [k \in 1..Len(s) |-> s[Len(s) + 1 - k]]

\* s[a:b] for 0 <= a <= b
Slice(s, a, b) == SubSeq(s, a + 1, IF b < Len(s) THEN b ELSE Len(s))

RECURSIVE Join(_, _)
\* sep.join(parts)
Join(sep, parts) ==
    IF Len(parts) = 0 THEN <<>>
    ELSE IF Len(parts) = 1 THEN parts[1]
    ELSE parts[1] \o sep \o Join(sep, Tail(parts))

\* c in s
Contains(s, c) == \E k \in 1..Len(s) : s[k] = c

\* s.find(c), 1-based; only used when c is in s
Find(s, c) == CHOOSE k \in 1..Len(s) : s[k] = c /\ \A j \in 1..(k - 1) : s[j] # c

\* the number of occurrences of c in s
Count(s, c) == Cardinality({k \in 1..Len(s) : s[k] = c})

\* s.replace(c, new, 1)
ReplaceFirst(s, c, new) ==
    IF Contains(s, c)
    THEN SubSeq(s, 1, Find(s, c) - 1) \o new \o SubSeq(s, Find(s, c) + 1, Len(s))
    ELSE s

RECURSIVE IntToStr(_)
\* str(n) for n >= 0
IntToStr(n) ==
    IF n < 10 THEN <<DigitChars[n + 1]>>
    ELSE IntToStr(n \div 10) \o <<DigitChars[(n % 10) + 1]>>

RECURSIVE ZeroPad(_, _)
\* s right-justified in a field of w characters, filled with "0"
ZeroPad(s, w) == IF Len(s) >= w THEN s ELSE ZeroPad(<<"0">> \o s, w)

UnsignedDigits(s) == Len(s) > 0 /\ \A k \in 1..Len(s) : IsDigit(s[k])

RECURSIVE DigitsToInt(_)
\* the number a string of decimal digits denotes
DigitsToInt(s) ==
    IF Len(s) = 0 THEN 0
    ELSE 10 * DigitsToInt(SubSeq(s, 1, Len(s) - 1)) + DigitVal(s[Len(s)])

HasSign(s) == Len(s) > 0 /\ s[1] \in {"+", "-"}

Unsigned(s) == IF HasSign(s) THEN Tail(s) ELSE s

(***************************************************************************)
(* Built-in conversions: int(str), float(str), float formatting.            *)
(***************************************************************************)
\* int(text): an optional sign and at least one digit, ValueError otherwise
PyIntOfStr(text) ==
    IF UnsignedDigits(Unsigned(text))
    THEN Return(PyInt(IF HasSign(text) /\ text[1] = "-"
                      THEN 0 - DigitsToInt(Unsigned(text))
                      ELSE DigitsToInt(Unsigned(text))))
    ELSE Raise("ValueError", <<"invalid literal for int() with base 10">>)

\* num / den rounded to the nearest integer, an exact tie going to the even one
RoundHalfEven(num, den) ==
    LET q == num \div den
        r == num % den
    IN  IF 2 * r > den \/ (2 * r = den /\ q % 2 = 1) THEN q + 1 ELSE q

\* the float nearest to the decimal literal ip "." fp (both digit strings)
DecimalToFloat(neg, ip, fp) ==
    PyFloat("fin", neg,
            DigitsToInt(ip) * Scale
              + RoundHalfEven(DigitsToInt(fp) * Scale, Pow(10, Len(fp))))

\* float(text): inf, infinity and nan in any case, or a decimal literal with
\* an optional sign and an optional fraction; ValueError otherwise
PyFloatOfStr(text) ==
    LET neg  == HasSign(text) /\ text[1] = "-"
        body == Lower(Unsigned(text))
        dot  == IF Contains(body, ".") THEN Find(body, ".") ELSE Len(body) + 1
        ip   == SubSeq(body, 1, dot - 1)
        fp   == SubSeq(body, dot + 1, Len(body))
        dig(x) == \A k \in 1..Len(x) : IsDigit(x[k])
    IN  IF body \in {<<"i", "n", "f">>, <<"i", "n", "f", "i", "n", "i", "t", "y">>}
        THEN Return(PyFloat("inf", neg, 0))
        ELSE IF body = <<"n", "a", "n">>
        THEN Return(PyFloat("nan", neg, 0))
        ELSE IF dig(ip) /\ dig(fp) /\ Len(ip) + Len(fp) > 0
        THEN Return(DecimalToFloat(neg, ip, fp))
        ELSE Raise("ValueError", <<"could not convert string to float">>)

\* value < 0
IsNegative(v) ==
    \/ v.kind = "inf" /\ v.neg
    \/ v.kind = "fin" /\ v.neg /\ v.mag > 0

\* abs(value)
Abs(v) == [v EXCEPT !.neg = FALSE]

IsFinite(v) == v.kind = "fin"

\* the digits of mag / Scale correctly rounded to d fractional digits, an
\* exact tie going to the even last digit (the integer and the fractional
\* part are rounded separately so that no product leaves the integer range)
FixedDigits(mag, d) ==
    LET p     == Pow(10, d)
        ipart == mag \div Scale
        f     == (mag % Scale) * p
        q     == f \div Scale
        r     == f % Scale
        odd   == IF d = 0 THEN ipart % 2 = 1 ELSE q % 2 = 1
        up    == 2 * r > Scale \/ (2 * r = Scale /\ odd)
        fr    == IF up THEN q + 1 ELSE q
        carry == IF fr >= p THEN 1 ELSE 0
    IN  IntToStr(ipart + carry)
          \o (IF d > 0 THEN <<".">> \o ZeroPad(IntToStr(fr - carry * p), d) ELSE <<>>)

\* "{:.<d>f}".format(v): a negative precision is no format specifier
FormatFixed(v, d) ==
    IF d < 0 THEN Raise("ValueError", <<"Format specifier missing precision">>)
    ELSE IF v.kind = "nan" THEN Return(<<"n", "a", "n">>)
    ELSE Return((IF v.neg THEN <<"-">> ELSE <<>>)
                  \o (IF v.kind = "inf" THEN <<"i", "n", "f">>
                      ELSE FixedDigits(v.mag, d)))

RECURSIVE ExpUp(_, _)
\* the decimal exponent of mag / Scale >= 10^e
ExpUp(mag, e) == IF mag >= Pow(10, e + 1) * Scale THEN ExpUp(mag, e + 1) ELSE e

RECURSIVE ExpDown(_, _)
\* the decimal exponent of 0 < mag / Scale < 10^(e+1), e < 0
ExpDown(mag, e) == IF mag * Pow(10, 0 - e) >= Scale THEN e ELSE ExpDown(mag, e - 1)

\* the mantissa digits and the exponent of mag / Scale, digits mantissa
\* fractional digits, correctly rounded with ties to even
SciParts(mag, digits) ==
    LET e0 == IF mag >= Scale THEN ExpUp(mag, 0) ELSE ExpDown(mag, 0 - 1)
        m0 == IF digits - e0 >= 0
              THEN RoundHalfEven(mag * Pow(10, digits - e0), Scale)
              ELSE RoundHalfEven(mag, Scale * Pow(10, e0 - digits))
        over == m0 >= Pow(10, digits + 1)
    IN  IF mag = 0 THEN [m |-> 0, e |-> 0]
        ELSE [m |-> IF over THEN m0 \div 10 ELSE m0, e |-> IF over THEN e0 + 1 ELSE e0]

\* "{:.<digits>e}".format(v)
FormatExp(v, digits) ==
    LET sp == SciParts(v.mag, digits)
        ms == ZeroPad(IntToStr(sp.m), digits + 1)
        es == ZeroPad(IntToStr(IF sp.e < 0 THEN 0 - sp.e ELSE sp.e), 2)
    IN  IF v.kind = "nan" THEN <<"n", "a", "n">>
        ELSE (IF v.neg THEN <<"-">> ELSE <<>>)
               \o (IF v.kind = "inf" THEN <<"i", "n", "f">>
                   ELSE <<ms[1]>> \o (IF digits > 0 THEN <<".">> \o Tail(ms) ELSE <<>>)
                          \o <<"e", IF sp.e < 0 THEN "-" ELSE "+">> \o es)

RECURSIVE Split(_, _)
\* s.split(c)
Split(s, c) ==
    IF Contains(s, c)
    THEN <<SubSeq(s, 1, Find(s, c) - 1)>> \o Split(SubSeq(s, Find(s, c) + 1, Len(s)), c)
    ELSE <<s>>

(***************************************************************************)
(* Configuration: the locale registry.                                      *)
(***************************************************************************)
US == <<"U", "S">>
EU == <<"E", "U">>
UK == <<"U", "K">>

\* the registry's keys, in insertion order
LocaleKeys == <<US, EU, UK>>

LOCALE_CONFIG ==
    [k \in {US, EU, UK} |->
        IF k = US THEN [decimal_sep |-> <<".">>, thousands_sep |-> <<",">>,
                        currency_symbol |-> <<"$">>,
                        currency_symbol_position |-> "before",
                        currency_symbol_space |-> FALSE]
        ELSE IF k = EU THEN [decimal_sep |-> <<",">>, thousands_sep |-> <<".">>,
                             currency_symbol |-> <<"€">>,
                             currency_symbol_position |-> "after",
                             currency_symbol_space |-> TRUE]
        ELSE [decimal_sep |-> <<".">>, thousands_sep |-> <<",">>,
              currency_symbol |-> <<"£">>,
              currency_symbol_position |-> "before",
              currency_symbol_space |-> FALSE]]

\* LOCALE_CONFIG.get(locale) is not None
HasLocale(locale) == locale \in DOMAIN LOCALE_CONFIG

(***************************************************************************)
(* Formatting helpers.                                                      *)
(***************************************************************************)
\* grouping that counts the groups of three from the leftmost digit
group_thousands_from_left(integer_part, sep) ==
    IF Len(integer_part) <= 3 THEN integer_part
    ELSE LET n == (Len(integer_part) + 2) \div 3
         IN  Join(sep, [k \in 1..n |-> Slice(integer_part, 3 * (k - 1), 3 * k)])

group_thousands(integer_part, sep) ==
    IF Len(integer_part) <= 3 THEN integer_part
    ELSE LET rev    == Reverse(integer_part)
             n      == (Len(rev) + 2) \div 3
             groups == [k \in 1..n |-> Slice(rev, 3 * (k - 1), 3 * k)]
         IN  Join(sep, [k \in 1..n |-> Reverse(Reverse(groups)[k])])

\* format_plain once number_str is formatted: split at ".", group, reassemble
assemble_plain(sign, number_str, locale_cfg, decimals, grouping) ==
    LET parts     == Split(number_str, ".")
        has_dot   == Contains(number_str, ".")
        int_part  == IF has_dot THEN parts[1] ELSE number_str
        frac_part == IF has_dot THEN parts[2] ELSE <<>>
        grouped   == IF grouping
                     THEN group_thousands(int_part, locale_cfg.thousands_sep)
                     ELSE int_part
        result    == IF decimals > 0
                     THEN grouped \o locale_cfg.decimal_sep \o frac_part
                     ELSE grouped
    IN  IF has_dot /\ Len(parts) # 2
        THEN Raise("ValueError", <<"too many values to unpack">>)
        ELSE Return(sign \o result)

\* an exception raised by the callee propagates, a returned value is used
Propagate(formatted, used) == IF formatted.exc # "none" THEN formatted ELSE used

format_plain(value, locale_cfg, decimals, grouping) ==
    Propagate(FormatFixed(Abs(value), decimals),
              assemble_plain(IF IsNegative(value) THEN <<"-">> ELSE <<>>,
                             FormatFixed(Abs(value), decimals).val,
                             locale_cfg, decimals, grouping))

\* the symbol placed around the signed string, the sign left where it is
place_symbol_keep_sign(base, locale_cfg) ==
    LET symbol == locale_cfg.currency_symbol
        space  == IF locale_cfg.currency_symbol_space THEN <<" ">> ELSE <<>>
    IN  Return(IF locale_cfg.currency_symbol_position = "before"
               THEN symbol \o space \o base
               ELSE base \o space \o symbol)

\* format_currency once base is rendered: the sign is taken off, the symbol
\* is put before or after, the sign is put back first
place_symbol(base, locale_cfg) ==
    LET minus  == Len(base) > 0 /\ base[1] = "-"
        sign   == IF minus THEN <<"-">> ELSE <<>>
        number == IF minus THEN Tail(base) ELSE base
        symbol == locale_cfg.currency_symbol
        before == locale_cfg.currency_symbol_position = "before"
        space  == IF locale_cfg.currency_symbol_space THEN <<" ">> ELSE <<>>
        formatted_number == IF before THEN symbol \o space \o number
                            ELSE number \o space \o symbol
    IN  Return(sign \o formatted_number)

\* place_symbol applied to what format_plain returned
currency_of(plain, locale_cfg) == Propagate(plain, place_symbol(plain.val, locale_cfg))

format_currency(value, locale_cfg, decimals) ==
    currency_of(format_plain(value, locale_cfg, decimals, TRUE), locale_cfg)

\* the substitution applied to the exponent part instead of the mantissa,
\* where there is no "." to replace
swap_separator_in_exponent(raw, decimal_sep) ==
    LET parts == Split(raw, "e")
    IN  IF decimal_sep # <<".">> /\ Len(parts) = 2
        THEN Return(parts[1] \o <<"e">> \o ReplaceFirst(parts[2], ".", decimal_sep))
        ELSE Return(raw)

\* format_scientific once raw is formatted
swap_separator(raw, decimal_sep) ==
    LET parts == Split(raw, "e")
    IN  IF decimal_sep # <<".">>
        THEN IF Len(parts) < 2
             THEN Raise("ValueError", <<"not enough values to unpack">>)
             ELSE IF Len(parts) > 2
             THEN Raise("ValueError", <<"too many values to unpack">>)
             ELSE Return(ReplaceFirst(parts[1], ".", decimal_sep) \o <<"e">> \o parts[2])
        ELSE Return(raw)

format_scientific(value, locale_cfg, digits) ==
    swap_separator(FormatExp(value, digits), locale_cfg.decimal_sep)

\* the digits argument's default in format_scientific's signature
SciDigits == 3

\* the decimals a style uses when none is given
DefaultDecimals(style) == IF style = "currency" THEN 2 ELSE 0

\* the default taken whenever decimals is falsy (`if not decimals`), so for 0 too
ResolveDecimalsFalsy(decimals, default) ==
    IF decimals.t = "None" \/ decimals.i = 0 THEN default ELSE decimals.i

\* `decimals = <default> if decimals is None`
ResolveDecimals(decimals, default) == IF decimals.t = "None" THEN default ELSE decimals.i

StyleCurrency   == <<"c", "u", "r", "r", "e", "n", "c", "y">>
StyleComma      == <<"c", "o", "m", "m", "a">>
StyleGrouped    == <<"g", "r", "o", "u", "p", "e", "d">>
StyleRound      == <<"r", "o", "u", "n", "d">>
StyleRounded    == <<"r", "o", "u", "n", "d", "e", "d">>
StyleSci        == <<"s", "c", "i">>
StyleScientific == <<"s", "c", "i", "e", "n", "t", "i", "f", "i", "c">>

\* format_number after `style = style.lower()`
dispatch(value, locale, style, decimals) ==
    IF ~HasLocale(locale)
    THEN Raise("ValueError", <<"Unknown locale: ">> \o locale)
    ELSE IF style = StyleCurrency
    THEN format_currency(value, LOCALE_CONFIG[locale],
                         ResolveDecimals(decimals, DefaultDecimals("currency")))
    ELSE IF style \in {StyleComma, StyleGrouped}
    THEN format_plain(value, LOCALE_CONFIG[locale],
                      ResolveDecimals(decimals, DefaultDecimals("grouped")), TRUE)
    ELSE IF style \in {StyleRound, StyleRounded}
    THEN format_plain(value, LOCALE_CONFIG[locale],
                      ResolveDecimals(decimals, DefaultDecimals("rounded")), FALSE)
    ELSE IF style \in {StyleSci, StyleScientific}
    THEN format_scientific(value, LOCALE_CONFIG[locale], SciDigits)
    ELSE Raise("ValueError", <<"Unknown style: ">> \o style)

\* the dispatcher with the style compared as given, its case not folded
format_number_case_sensitive(value, locale, style, decimals) ==
    dispatch(value, locale, style, decimals)

format_number(value, locale, style, decimals) ==
    dispatch(value, locale, Lower(style), decimals)

(***************************************************************************)
(* Flask endpoints.                                                         *)
(***************************************************************************)
\* jsonify({"error": msg}), 400
ErrorResponse(msg) ==
    [status |-> 400, error |-> msg, input |-> PyNone, formatted |-> <<>>]

\* request.args.get("decimals", default=None, type=int): the default when
\* the parameter is absent or int() raises ValueError
ArgsGetInt(raw) ==
    IF raw.t = "None" THEN PyNone
    ELSE IF PyIntOfStr(raw.s).exc = "none" THEN PyIntOfStr(raw.s).val
    ELSE PyNone

\* dict.get(key, default) for a key whose value, when present, is a string
GetOr(raw, default) == IF raw.t = "None" THEN default ELSE raw.s

\* float(value) for a str or a float
ToFloat(value) == IF value.t = "str" THEN PyFloatOfStr(value.s) ELSE Return(value)

\* the POST branch's `decimals = int(decimals)` for a str, the value itself otherwise
JsonInt(raw) == IF raw.t = "str" THEN PyIntOfStr(raw.s) ELSE Return(raw)

\* the request's decimals as the method's branch reads it
read_decimals(req) ==
    IF req.method = "GET" THEN Return(ArgsGetInt(req.decimals)) ELSE JsonInt(req.decimals)

\* the response echoing the decimals the formatter resolved, 2 when none came
respond_resolved(value, locale, style, decimals, result) ==
    IF result.exc # "none" THEN ErrorResponse(result.msg)
    ELSE [status |-> 200, error |-> <<>>,
          input |-> [value |-> value, locale |-> locale, style |-> style,
                     decimals |-> IF decimals.t = "None" THEN PyInt(2) ELSE decimals],
          formatted |-> result.val]

\* the endpoint's last step: the formatter's ValueError, or the echo and the string
respond(value, locale, style, decimals, result) ==
    IF result.exc # "none" THEN ErrorResponse(result.msg)
    ELSE [status |-> 200, error |-> <<>>,
          input |-> [value |-> value, locale |-> locale,
                     style |-> style, decimals |-> decimals],
          formatted |-> result.val]

\* the endpoint once value is a float
handle_float(value, locale, style, decimals) ==
    respond(value, locale, style, decimals,
            format_number(value, locale, style, decimals))

\* the endpoint once the request is read
handle(raw_value, value, locale, style, decimals) ==
    IF decimals.exc # "none" THEN ErrorResponse(<<"decimals must be an integer">>)
    ELSE IF raw_value.t = "None" THEN ErrorResponse(<<"value is required">>)
    ELSE IF value.exc # "none" THEN ErrorResponse(<<"value must be numeric">>)
    ELSE handle_float(value.val, locale, style, decimals.val)

format_endpoint(req) ==
    handle(req.value, ToFloat(req.value), GetOr(req.locale, US),
           GetOr(req.style, StyleCurrency), read_decimals(req))

list_locales == [status |-> 200, locales |-> LocaleKeys]

(***************************************************************************)
(* Inputs.                                                                  *)
(***************************************************************************)
\* the decimal literal ip "." fp
Dec(ip, fp) == IntToStr(ip) \o <<".">> \o fp

Neg(text) == <<"-">> \o text

TextInf == <<"i", "n", "f">>
TextNaN == <<"n", "a", "n">>
TextJunk == <<"a", "b", "c">>

\* literals of finite values; every one is a multiple of 1/8
NumericTexts ==
    { IntToStr(0), Neg(IntToStr(0)), Dec(0, <<"5">>), Dec(1, <<"5">>), Dec(2, <<"5">>),
      Dec(0, <<"1", "2", "5">>), Dec(0, <<"2", "5">>), Neg(Dec(0, <<"3", "7", "5">>)),
      Dec(999, <<"5">>), Dec(1234, <<"5">>), Neg(IntToStr(42)), IntToStr(1234567),
      Neg(Dec(1234, <<"5">>)), Dec(9999, <<"5">>), Dec(1234, <<"7", "5">>) }

NonFiniteTexts == { TextInf, Neg(TextInf), TextNaN, <<"I", "n", "f", "i", "n", "i", "t", "y">> }

Floats == { PyFloatOfStr(x).val : x \in NumericTexts \cup NonFiniteTexts }

\* locale identifiers: the registry's keys, a key in the wrong case, an unknown one
LocaleIds == { US, EU, UK, <<"u", "s">>, <<"X", "X">> }

Styles ==
    { StyleCurrency, StyleComma, StyleGrouped, StyleRound, StyleRounded, StyleSci,
      StyleScientific, <<"C", "u", "r", "r", "e", "n", "c", "y">>, <<"S", "C", "I">>,
      <<"b", "o", "g", "u", "s">> }

\* the registry's profiles and the two symbol placements it does not use
Profiles ==
    { LOCALE_CONFIG[k] : k \in DOMAIN LOCALE_CONFIG }
      \cup { [LOCALE_CONFIG[US] EXCEPT !.currency_symbol_space = TRUE],
             [LOCALE_CONFIG[EU] EXCEPT !.currency_symbol_space = FALSE] }

DecimalsArgs == { PyNone } \cup { PyInt(d) : d \in (0 - 1)..MaxDecimals }

DigitStrings ==
    UNION { [1..n -> {"0", "7"}] : n \in 0..MaxDigits }
      \cup { IntToStr(1234), IntToStr(1234567), <<"0", "0", "0">> }

Separators == { <<",">>, <<".">>, <<" ">>, <<>>, <<"'", "'">> }

\* what a client sends as value: numbers, junk, the non-finite spellings, nothing
RequestValueTexts ==
    { Dec(1234, <<"5">>), Neg(IntToStr(42)), Dec(0, <<"5">>), Dec(2, <<"5">>),
      Dec(0, <<"1", "2", "5">>), IntToStr(1234567), TextJunk, TextInf, Neg(TextInf),
      TextNaN, <<>> }

QueryValues == { PyNone } \cup { PyStr(x) : x \in RequestValueTexts }

JsonValues ==
    { PyNone }
      \cup { PyStr(x) : x \in { Dec(1234, <<"5">>), TextJunk, TextInf, TextNaN } }
      \cup { PyFloatOfStr(x).val :
               x \in { Dec(1234, <<"5">>), Neg(IntToStr(42)), Dec(0, <<"5">>),
                       Dec(2, <<"5">>), Dec(0, <<"1", "2", "5">>), IntToStr(1234567) } }

RequestLocales == { PyNone } \cup { PyStr(x) : x \in LocaleIds }

RequestStyles ==
    { PyNone }
      \cup { PyStr(x) : x \in { StyleCurrency, StyleComma, StyleRound, StyleScientific,
                                <<"S", "C", "I">>, <<"b", "o", "g", "u", "s">> } }

DecimalsTexts ==
    { IntToStr(d) : d \in 0..MaxDecimals }
      \cup { Neg(IntToStr(1)), TextJunk, Dec(2, <<"5">>), <<>> }

QueryDecimals == { PyNone } \cup { PyStr(x) : x \in DecimalsTexts }

JsonDecimals ==
    DecimalsArgs \cup { PyStr(x) : x \in { IntToStr(2), Neg(IntToStr(1)), TextJunk } }

(***************************************************************************)
(* The service: one request at a time, each handled in one step.            *)
(***************************************************************************)
Idle == [op |-> "idle"]

Init == call = Idle /\ ret = Idle

\* GET /format?value=..&locale=..&style=..&decimals=..
GetFormat ==
    /\ call.op = "idle"
    /\ \E value \in QueryValues, locale \in RequestLocales,
          style \in RequestStyles, decimals \in QueryDecimals :
          LET req == [method |-> "GET", value |-> value, locale |-> locale,
                      style |-> style, decimals |-> decimals]
          IN  /\ call' = [op |-> "format_endpoint", req |-> req]
              /\ ret' = format_endpoint(req)

\* POST /format with a JSON body
PostFormat ==
    /\ call.op = "idle"
    /\ \E value \in JsonValues, locale \in RequestLocales,
          style \in RequestStyles, decimals \in JsonDecimals :
          LET req == [method |-> "POST", value |-> value, locale |-> locale,
                      style |-> style, decimals |-> decimals]
          IN  /\ call' = [op |-> "format_endpoint", req |-> req]
              /\ ret' = format_endpoint(req)

\* GET /locales
GetLocales ==
    /\ call.op = "idle"
    /\ call' = [op |-> "list_locales"]
    /\ ret' = list_locales

\* the response is sent; nothing of the request survives it
Respond ==
    /\ call.op # "idle"
    /\ call' = Idle
    /\ ret' = Idle

Next == GetFormat \/ PostFormat \/ GetLocales \/ Respond

Spec == Init /\ [][Next]_vars

(***************************************************************************)
(* The formatting functions called directly on bounded inputs.              *)
(***************************************************************************)
FnCalls ==
    { [op |-> "group_thousands", integer_part |-> d, sep |-> x] :
        d \in DigitStrings, x \in Separators }
      \cup { [op |-> "format_plain", value |-> v, locale_cfg |-> c,
              decimals |-> d, grouping |-> g] :
               v \in Floats, c \in Profiles, d \in (0 - 1)..MaxDecimals, g \in BOOLEAN }
      \cup { [op |-> "format_currency", value |-> v, locale_cfg |-> c, decimals |-> d] :
               v \in Floats, c \in Profiles, d \in (0 - 1)..MaxDecimals }
      \cup { [op |-> "format_scientific", value |-> v, locale_cfg |-> c] :
               v \in Floats, c \in Profiles }
      \cup { [op |-> "format_number", value |-> v, locale |-> l, style |-> x,
              decimals |-> d] :
               v \in Floats, l \in LocaleIds, x \in Styles, d \in DecimalsArgs }

FnInit == call \in FnCalls /\ ret = Idle

CallGroupThousands ==
    /\ call.op = "group_thousands" /\ ret = Idle
    /\ ret' = Return(group_thousands(call.integer_part, call.sep))
    /\ UNCHANGED call

CallFormatPlain ==
    /\ call.op = "format_plain" /\ ret = Idle
    /\ ret' = format_plain(call.value, call.locale_cfg, call.decimals, call.grouping)
    /\ UNCHANGED call

CallFormatCurrency ==
    /\ call.op = "format_currency" /\ ret = Idle
    /\ ret' = format_currency(call.value, call.locale_cfg, call.decimals)
    /\ UNCHANGED call

CallFormatScientific ==
    /\ call.op = "format_scientific" /\ ret = Idle
    /\ ret' = format_scientific(call.value, call.locale_cfg, SciDigits)
    /\ UNCHANGED call

CallFormatNumber ==
    /\ call.op = "format_number" /\ ret = Idle
    /\ ret' = format_number(call.value, call.locale, call.style, call.decimals)
    /\ UNCHANGED call

FnNext ==
    \/ CallGroupThousands
    \/ CallFormatPlain
    \/ CallFormatCurrency
    \/ CallFormatScientific
    \/ CallFormatNumber

FnSpec == FnInit /\ [][FnNext]_vars

(***************************************************************************)
(* Properties of the formatting functions (checked under FnSpec).           *)
(***************************************************************************)
\* the call named op has returned or raised
Called(op) == call.op = op /\ ret # Idle

\* the error a call raised starts with this text
RaisedWith(head) == ret.exc = "ValueError" /\ ret.msg[1] = head

\* the keys of the registry, as the specification lists them
RegistryKeys == { <<"U", "S">>, <<"E", "U">>, <<"U", "K">> }

\* the seven recognised style names
RecognisedStyles ==
    { StyleCurrency, StyleGrouped, StyleComma, StyleRounded, StyleRound,
      StyleScientific, StyleSci }

\* decimals is absent or a non-negative integer
DecimalsValid(d) == d.t = "None" \/ (d.t = "int" /\ d.i >= 0)

\* C1: with a finite value and absent or non-negative decimals, format_number
\* raises 'Unknown locale' exactly when the locale is not a case-sensitive key
\* of the registry; for a known locale it raises 'Unknown style' exactly when
\* the lower-cased style is none of the seven names; otherwise it returns a
\* string.
C1_DispatchErrors ==
    (Called("format_number") /\ IsFinite(call.value) /\ DecimalsValid(call.decimals))
    => /\ RaisedWith("Unknown locale: ") <=> call.locale \notin RegistryKeys
       /\ call.locale \in RegistryKeys
            => (RaisedWith("Unknown style: ")
                  <=> Lower(call.style) \notin RecognisedStyles)
       /\ (call.locale \in RegistryKeys /\ Lower(call.style) \in RecognisedStyles)
            => (ret.exc = "none" /\ Len(ret.val) > 0)

\* C1 witness: a style given in upper case is formatted for a known locale
C1_Witness ==
    /\ Called("format_number")
    /\ call.style = <<"S", "C", "I">> /\ call.locale = UK
    /\ IsFinite(call.value) /\ DecimalsValid(call.decimals)
    /\ ret.exc = "none"

\* the length of the run of digits that follows the first character sep in
\* out (0 when sep does not occur)
FracDigits(out, sep) ==
    IF ~Contains(out, sep) THEN 0
    ELSE LET p == Find(out, sep)
         IN  Cardinality({ k \in (p + 1)..Len(out) :
                             \A j \in (p + 1)..k : IsDigit(out[j]) })

\* the count of fractional digits the specification gives a request
ExpectedFracDigits(style, decimals) ==
    IF style \in {StyleScientific, StyleSci} THEN 3
    ELSE IF decimals.t = "int" THEN decimals.i
    ELSE IF style = StyleCurrency THEN 2
    ELSE 0

\* C2: for a known locale and a finite value the output of format_number has
\* d fractional digits when d >= 0 is given (d = 0 included) for currency,
\* grouped/comma and rounded/round, the style default (2, 0, 0) when decimals
\* is absent, and always 3 mantissa fractional digits for scientific/sci.
C2_FractionalDigits ==
    (/\ Called("format_number") /\ IsFinite(call.value)
     /\ call.locale \in RegistryKeys /\ Lower(call.style) \in RecognisedStyles
     /\ (DecimalsValid(call.decimals) \/ Lower(call.style) \in {StyleScientific, StyleSci}))
    => /\ ret.exc = "none"
       /\ FracDigits(ret.val, LOCALE_CONFIG[call.locale].decimal_sep[1])
            = ExpectedFracDigits(Lower(call.style), call.decimals)

\* C2 witness: currency with an explicit decimals of 0 renders no fraction
C2_Witness ==
    /\ Called("format_number") /\ call.style = StyleCurrency /\ call.locale = EU
    /\ call.decimals = PyInt(0) /\ IsFinite(call.value) /\ call.value.mag = 1234 * Scale + Scale \div 2
    /\ ret.exc = "none" /\ ~Contains(ret.val, ",")

\* the place in the grouped string of the j-th digit of a string of n digits
\* grouped with a separator of w characters
GroupedIndex(j, n, w) ==
    LET first == n - 3 * (((n + 2) \div 3) - 1)
    IN  IF j <= first THEN j ELSE j + (1 + ((j - first - 1) \div 3)) * w

\* C3: group_thousands returns a string of at most 3 digits unchanged; a
\* longer one comes back as groups joined by sep: ceil(len/3) - 1 separators,
\* a leftmost group of 1 to 3 digits, every other group of exactly 3, and the
\* digits in their order.
C3_Grouping ==
    Called("group_thousands")
    => LET s     == call.integer_part
           sep   == call.sep
           out   == ret.val
           n     == Len(s)
           count == ((n + 2) \div 3) - 1
           first == n - 3 * count
       IN  IF n <= 3 THEN out = s
           ELSE /\ Len(out) = n + count * Len(sep)
                /\ first \in 1..3
                /\ \A j \in 1..n : out[GroupedIndex(j, n, Len(sep))] = s[j]
                /\ \A g \in 1..count :
                     SubSeq(out, first + (g - 1) * (3 + Len(sep)) + 1,
                            first + (g - 1) * (3 + Len(sep)) + Len(sep)) = sep

\* C3 witness: a five-digit string gets one separator after its second digit
C3_Witness ==
    /\ Called("group_thousands")
    /\ call.integer_part = <<"7", "0", "0", "7", "7">> /\ call.sep = <<",">>
    /\ ret.val = <<"7", "0", ",", "0", "7", "7">>

\* C4: for every profile, value and decimals >= 0, format_currency returns
\* sign + body: N is the grouped plain rendering without its leading '-', body
\* is symbol + spacer + N for position 'before' and N + spacer + symbol
\* otherwise, spacer is one space exactly when currency_symbol_space is true,
\* sign is '-' exactly when the plain rendering started with '-'; so for a
\* negative value '-' comes first and nowhere else.
C4_CurrencyLayout ==
    (Called("format_currency") /\ call.decimals >= 0)
    => LET cfg    == call.locale_cfg
           plain  == format_plain(call.value, cfg, call.decimals, TRUE).val
           minus  == plain[1] = "-"
           N      == IF minus THEN Tail(plain) ELSE plain
           spacer == IF cfg.currency_symbol_space THEN <<" ">> ELSE <<>>
           body   == IF cfg.currency_symbol_position = "before"
                     THEN cfg.currency_symbol \o spacer \o N
                     ELSE N \o spacer \o cfg.currency_symbol
       IN  /\ ret.exc = "none"
           /\ ret.val = (IF minus THEN <<"-">> ELSE <<>>) \o body
           /\ IsNegative(call.value)
                => (ret.val[1] = "-" /\ Count(ret.val, "-") = 1)

\* C4 witness: a negative amount with the symbol before the digits
C4_Witness ==
    /\ Called("format_currency") /\ call.decimals = 2
    /\ call.locale_cfg = LOCALE_CONFIG[US]
    /\ call.value = PyFloat("fin", TRUE, 1234 * Scale + Scale \div 2)
    /\ ret.val = <<"-", "$", "1", ",", "2", "3", "4", ".", "5", "0">>

\* C10: for a finite value and any profile, format_scientific differs from the
\* '.'-based rendering d.ddde+XX in at most the mantissa's decimal point, which
\* is the locale's decimal separator; the marker 'e', the exponent's sign and
\* digits are the same, and with the separator '.' the two strings are equal.
C10_ScientificSeparator ==
    (Called("format_scientific") /\ IsFinite(call.value))
    => LET raw == FormatExp(call.value, SciDigits)
           sep == call.locale_cfg.decimal_sep
           dot == Find(raw, ".")
       IN  /\ ret.exc = "none"
           /\ Len(ret.val) = Len(raw)
           /\ dot < Find(raw, "e")
           /\ ret.val[dot] = sep[1]
           /\ \A k \in 1..Len(raw) : k # dot => ret.val[k] = raw[k]
           /\ sep = <<".">> => ret.val = raw

\* C10 witness: a small negative value under a ',' locale
C10_Witness ==
    /\ Called("format_scientific") /\ call.locale_cfg = LOCALE_CONFIG[EU]
    /\ call.value = PyFloat("fin", TRUE, (3 * Scale) \div 8)
    /\ ret.val = <<"-", "3", ",", "7", "5", "0", "e", "-", "0", "1">>

\* abs(value) = mag / Scale lies exactly halfway between two adjacent decimals
\* of d fractional digits
IsTie(mag, d) == 2 * (((mag % Scale) * Pow(10, d)) % Scale) = Scale

\* the digits of the larger of the two d-digit decimals around mag / Scale
LargerNeighbour(mag, d) ==
    LET p     == Pow(10, d)
        up    == (((mag % Scale) * p) \div Scale) + 1
        carry == IF up >= p THEN 1 ELSE 0
    IN  IntToStr((mag \div Scale) + carry)
          \o (IF d > 0 THEN ZeroPad(IntToStr(up - carry * p), d) ELSE <<>>)

DigitsOnly(s) == SelectSeq(s, IsDigit)

\* C8: for decimals d >= 0, format_plain rounds abs(value) half away from
\* zero: a value exactly halfway between two adjacent d-digit decimals is
\* rendered with the digits of the larger one.
C8_HalfAwayFromZero ==
    (/\ Called("format_plain") /\ IsFinite(call.value) /\ call.decimals >= 0
     /\ IsTie(call.value.mag, call.decimals))
    => DigitsOnly(ret.val) = LargerNeighbour(call.value.mag, call.decimals)

(***************************************************************************)
(* Properties of the /format endpoint (checked under Spec).                 *)
(***************************************************************************)
Handled == call.op = "format_endpoint"

\* the request supplies a decimals that is a negative integer
DecimalsNegative(req) ==
    \/ req.decimals.t = "int" /\ req.decimals.i < 0
    \/ /\ req.decimals.t = "str"
       /\ PyIntOfStr(req.decimals.s).exc = "none"
       /\ PyIntOfStr(req.decimals.s).val.i < 0

\* the request supplies a decimals text that is no integer
DecimalsUnparseable(req) ==
    req.decimals.t = "str" /\ PyIntOfStr(req.decimals.s).exc # "none"

\* the request supplies a value text that is no finite real number
ValueNotFinite(req) ==
    /\ req.value.t = "str"
    /\ \/ PyFloatOfStr(req.value.s).exc # "none"
       \/ ~IsFinite(PyFloatOfStr(req.value.s).val)

\* C5: a format request that supplies a negative decimals is rejected with
\* an error and no formatted string, whatever the style, scientific included.
C5_NegativeDecimalsRejected ==
    (Handled /\ DecimalsNegative(call.req)) => ret.status = 400

\* C6: by GET or by POST, a decimals that is supplied but does not parse as
\* an integer makes the request fail instead of being formatted.
C6_UnparseableDecimalsRejected ==
    (Handled /\ DecimalsUnparseable(call.req)) => ret.status = 400

\* C7: a value that is present but is no finite real number (junk, infinity,
\* NaN) makes the request fail; no formatted string is returned.
C7_NonFiniteValueRejected ==
    (Handled /\ ValueNotFinite(call.req)) => ret.status = 400

\* the request was formatted with a fixed-point style from a finite value
FixedPointSuccess ==
    /\ Handled /\ ret.status = 200
    /\ IsFinite(ret.input.value)
    /\ Lower(ret.input.style) \notin {StyleScientific, StyleSci}

\* the count of fractional digits in the string the response carries
RenderedDecimals ==
    FracDigits(ret.formatted, LOCALE_CONFIG[ret.input.locale].decimal_sep[1])

SuppliedDecimals(req) ==
    IF req.decimals.t = "str"
    THEN IF PyIntOfStr(req.decimals.s).exc = "none"
         THEN PyIntOfStr(req.decimals.s).val ELSE PyNone
    ELSE req.decimals

====
